---- MODULE Spec2Model ----
(***************************************************************************)
(* Model of src/main.py: StepZenSOAPGenerator (workspace init, schema      *)
(* generation with the XSD type mapper, deploy) and the main() loop over   *)
(* the configured APIs.                                                    *)
(*                                                                         *)
(* Python strings are sequences of one-character strings, so that          *)
(* lower(), "in", endswith(), rstrip() and concatenation are computed the  *)
(* way the code computes them.                                             *)
(***************************************************************************)
EXTENDS Integers, Sequences, FiniteSets, TLC

\* ------------------------------------------------------------------ bounds
\* number of API entries in the configuration file
NumApis == 2
\* depth of nested _map_xsd_to_graphql calls at which the interpreter raises
\* RecursionError (sys.getrecursionlimit(), scaled down)
RecursionLimit == 4

\* --------------------------------------------------------- string helpers
UpperChars == <<"A","B","C","D","E","F","G","H","I","J","K","L","M","N","O","P","Q","R","S","T","U","V","W","X","Y","Z">>
LowerChars == <<"a","b","c","d","e","f","g","h","i","j","k","l","m","n","o","p","q","r","s","t","u","v","w","x","y","z">>

LowerChar(c) ==
  IF \E i \in 1..Len(UpperChars) : UpperChars[i] = c
  THEN LowerChars[CHOOSE i \in 1..Len(UpperChars) : UpperChars[i] = c]
  ELSE c

\* str.lower()
Lower(s) == [i \in 1..Len(s) |-> LowerChar(s[i])]

\* the Python operator "sub in s"
Contains(s, sub) ==
  \E i \in 0..(Len(s) - Len(sub)) :
    \A j \in 1..Len(sub) : s[i + j] = sub[j]

\* s.endswith("!")
EndsWithBang(s) == Len(s) > 0 /\ s[Len(s)] = "!"

\* s.rstrip("!"): drops every trailing "!"
RECURSIVE RStripBang(_)
RStripBang(s) ==
  IF EndsWithBang(s) THEN RStripBang(SubSeq(s, 1, Len(s) - 1)) ELSE s

\* s.split("?")[0]
RECURSIVE BeforeQuery(_)
BeforeQuery(s) ==
  IF s = <<>> \/ Head(s) = "?" THEN <<>> ELSE <<Head(s)>> \o BeforeQuery(Tail(s))

Digits == <<"0","1","2","3","4","5","6","7","8","9">>

\* str(n) for n >= 0, as the f-string formats the counter
RECURSIVE Str(_)
Str(n) ==
  IF n < 10 THEN <<Digits[n + 1]>> ELSE Str(n \div 10) \o <<Digits[(n % 10) + 1]>>

\* ----------------------------------------------------- XSD type nodes
\* max_occurs of an element declared maxOccurs="unbounded" (None in zeep)
Unbounded == -1

\* local names of the XSD built-in types
BuiltinNames ==
  << <<"s","t","r","i","n","g">>,
     <<"b","o","o","l","e","a","n">>,
     <<"d","e","c","i","m","a","l">>,
     <<"f","l","o","a","t">>,
     <<"d","o","u","b","l","e">>,
     <<"d","u","r","a","t","i","o","n">>,
     <<"d","a","t","e","T","i","m","e">>,
     <<"t","i","m","e">>,
     <<"d","a","t","e">>,
     <<"g","Y","e","a","r","M","o","n","t","h">>,
     <<"g","Y","e","a","r">>,
     <<"g","M","o","n","t","h","D","a","y">>,
     <<"g","D","a","y">>,
     <<"g","M","o","n","t","h">>,
     <<"h","e","x","B","i","n","a","r","y">>,
     <<"b","a","s","e","6","4","B","i","n","a","r","y">>,
     <<"a","n","y","U","R","I">>,
     <<"Q","N","a","m","e">>,
     <<"N","O","T","A","T","I","O","N">>,
     <<"n","o","r","m","a","l","i","z","e","d","S","t","r","i","n","g">>,
     <<"t","o","k","e","n">>,
     <<"l","a","n","g","u","a","g","e">>,
     <<"N","M","T","O","K","E","N">>,
     <<"N","M","T","O","K","E","N","S">>,
     <<"N","a","m","e">>,
     <<"N","C","N","a","m","e">>,
     <<"I","D">>,
     <<"I","D","R","E","F">>,
     <<"I","D","R","E","F","S">>,
     <<"E","N","T","I","T","Y">>,
     <<"E","N","T","I","T","I","E","S">>,
     <<"i","n","t","e","g","e","r">>,
     <<"n","o","n","P","o","s","i","t","i","v","e","I","n","t","e","g","e","r">>,
     <<"n","e","g","a","t","i","v","e","I","n","t","e","g","e","r">>,
     <<"l","o","n","g">>,
     <<"i","n","t">>,
     <<"s","h","o","r","t">>,
     <<"b","y","t","e">>,
     <<"n","o","n","N","e","g","a","t","i","v","e","I","n","t","e","g","e","r">>,
     <<"u","n","s","i","g","n","e","d","L","o","n","g">>,
     <<"u","n","s","i","g","n","e","d","I","n","t">>,
     <<"u","n","s","i","g","n","e","d","S","h","o","r","t">>,
     <<"u","n","s","i","g","n","e","d","B","y","t","e">>,
     <<"p","o","s","i","t","i","v","e","I","n","t","e","g","e","r">>,
     <<"a","n","y","T","y","p","e">>,
     <<"a","n","y","S","i","m","p","l","e","T","y","p","e">> >>

\* A node of the parsed type tree.  cat is the isinstance() category, name the
\* XSD local name of a built-in, id the identity of a complex type (its
\* children are Elements(id)), has_occurs whether the object carries the
\* min_occurs/max_occurs attributes.
Node(cat, name, id, has, mn, mx) ==
  [cat |-> cat, name |-> name, id |-> id, has_occurs |-> has,
   min_occurs |-> mn, max_occurs |-> mx]

Builtin(name, mn, mx) == Node("builtin", name, "", TRUE, mn, mx)
BuiltinType(name)     == Node("builtin", name, "", FALSE, 1, 1)
Other(mn, mx)         == Node("other", <<>>, "", TRUE, mn, mx)
Complex(id, mn, mx)   == Node("complex", <<>>, id, TRUE, mn, mx)
ComplexType(id)       == Node("complex", <<>>, id, FALSE, 1, 1)

\* every (minOccurs, maxOccurs) combination the occurrence handling tells apart
OccursCombos == << <<1, 1>>, <<0, 1>>, <<1, 2>>, <<0, 2>>, <<1, Unbounded>>,
                   <<0, Unbounded>>, <<0, 0>> >>

s_int    == <<"i","n","t">>
s_string == <<"s","t","r","i","n","g">>

\* el_type.elements of a complex type: (name, sub_type) pairs in order.
\*   AllBuiltins  one child per built-in type name
\*   Occurs       a built-in, a complex and an other child per combination
\*   Inner        a leaf record
\*   Outer        has a complex child whose element name is Outer as well
\*   Self         contains itself (a recursive XSD type)
\*   Deep         Deep -> Mid -> Inner, the deepest acyclic nesting
Elements(id) ==
  CASE id = "AllBuiltins" ->
         [i \in 1..Len(BuiltinNames) |->
            << <<"f">> \o Str(i), BuiltinType(BuiltinNames[i]) >>]
    [] id = "Occurs" ->
         [i \in 1..Len(OccursCombos) |->
            << <<"n">> \o Str(i),
               Builtin(s_int, OccursCombos[i][1], OccursCombos[i][2]) >>]
         \o [i \in 1..Len(OccursCombos) |->
            << <<"c">> \o Str(i),
               Complex("Inner", OccursCombos[i][1], OccursCombos[i][2]) >>]
         \o [i \in 1..Len(OccursCombos) |->
            << <<"o">> \o Str(i),
               Other(OccursCombos[i][1], OccursCombos[i][2]) >>]
    [] id = "Inner" ->
         << << <<"x">>, Builtin(s_string, 1, 1) >> >>
    [] id = "Outer" ->
         << << <<"O","u","t","e","r">>, Complex("Inner", 1, 1) >>,
            << <<"f","l","a","g">>, Builtin(<<"b","o","o","l","e","a","n">>, 0, 1) >> >>
    [] id = "Self" ->
         << << <<"v","a","l","u","e">>, Builtin(s_int, 1, 1) >>,
            << <<"n","e","x","t">>, Complex("Self", 0, 1) >> >>
    [] id = "Mid" ->
         << << <<"i","n","n","e","r">>, Complex("Inner", 1, 1) >> >>
    [] id = "Deep" ->
         << << <<"m","i","d">>, Complex("Mid", 1, Unbounded) >> >>
    [] OTHER -> <<>>

\* getattr(sub_type, 'min_occurs', 1) and getattr(sub_type, 'max_occurs', 1)
MinOccurs(sub_type) == IF sub_type.has_occurs THEN sub_type.min_occurs ELSE 1
MaxOccurs(sub_type) == IF sub_type.has_occurs THEN sub_type.max_occurs ELSE 1

\* ------------------------------------------------------- the type mapper
g_String  == <<"S","t","r","i","n","g","!">>
g_Int     == <<"I","n","t","!">>
g_Float   == <<"F","l","o","a","t","!">>
g_Boolean == <<"B","o","o","l","e","a","n","!">>

\* MapBuiltin without the lower() of the type name
MapBuiltinCaseSensitive(name) ==
  IF Contains(name, <<"i","n","t">>) THEN g_Int
  ELSE IF Contains(name, <<"f","l","o","a","t">>) \/ Contains(name, <<"d","o","u","b","l","e">>)
          \/ Contains(name, <<"d","e","c","i","m","a","l">>) THEN g_Float
  ELSE IF Contains(name, <<"b","o","o","l">>) THEN g_Boolean
  ELSE g_String

\* _map_xsd_to_graphql, the BuiltinType branch
MapBuiltin(name) ==
  LET xsd_name == Lower(name) IN
  IF Contains(xsd_name, <<"i","n","t">>) THEN g_Int
  ELSE IF Contains(xsd_name, <<"f","l","o","a","t">>) \/ Contains(xsd_name, <<"d","o","u","b","l","e">>)
          \/ Contains(xsd_name, <<"d","e","c","i","m","a","l">>) THEN g_Float
  ELSE IF Contains(xsd_name, <<"b","o","o","l">>) THEN g_Boolean
  ELSE g_String

\* _map_xsd_to_graphql on a node that is not a ComplexType
MapLeaf(el_type) ==
  IF el_type.cat = "builtin" THEN MapBuiltin(el_type.name) ELSE g_String

\* the while loop that picks the registry key of a complex type
RECURSIVE NameLoop(_, _, _, _)
NameLoop(registry, type_name_hint, type_name, counter) ==
  IF type_name \in DOMAIN registry
  THEN NameLoop(registry, type_name_hint, type_name_hint \o Str(counter), counter + 1)
  ELSE type_name

UniqueTypeName(registry, type_name_hint) ==
  NameLoop(registry, type_name_hint, type_name_hint, 1)

\* StripOptional that strips only a repeated element, whose marker the array step
\* drops anyway
StripOptionalNever(sub_gql_type, sub_type) ==
  IF MinOccurs(sub_type) = 0 /\ MaxOccurs(sub_type) > 1 /\ EndsWithBang(sub_gql_type)
  THEN RStripBang(sub_gql_type) ELSE sub_gql_type

\* the "Optional fields" step of the loop over el_type.elements
StripOptional(sub_gql_type, sub_type) ==
  IF MinOccurs(sub_type) = 0 /\ EndsWithBang(sub_gql_type)
  THEN RStripBang(sub_gql_type) ELSE sub_gql_type

\* the "Arrays" step of the loop over el_type.elements
WrapArray(sub_gql_type, sub_type) ==
  IF MaxOccurs(sub_type) = Unbounded \/ MaxOccurs(sub_type) > 1
  THEN <<"[">> \o RStripBang(sub_gql_type) \o <<"]", "!">>
  ELSE sub_gql_type

\* f"{name}: {sub_gql_type}" after both steps
FieldLine(name, sub_gql_type, sub_type) ==
  name \o <<":", " ">> \o WrapArray(StripOptional(sub_gql_type, sub_type), sub_type)

\* "type " + type_name + " {\n  " + "\n  ".join(fields) + "\n}"
TypeDecl(type_name, fields) ==
  [keyword |-> "type", name |-> type_name, body |-> fields]

\* --------------------------------------------------------- WSDL documents
Op(name, args) == [name |-> name, args |-> args]
Port(address, operations) == [address |-> address, operations |-> operations]
Wsdl(url, services) == [url |-> url, services |-> services]

url_a == <<"h","t","t","p",":","/","/","a","/","s","v","c","?","w","s","d","l">>
url_b == <<"h","t","t","p",":","/","/","b","/","s","v","c",".","a","s","m","x","?","W","S","D","L">>
addr1 == <<"h","t","t","p",":","/","/","h","1","/","e","p">>
addr2 == <<"h","t","t","p",":","/","/","h","2","/","e","p">>

n_Ping == <<"P","i","n","g">>
n_Echo == <<"E","c","h","o">>
n_Stat == <<"S","t","a","t">>
n_req  == <<"r","e","q">>

\* the WSDL documents the client may parse
Wsdls ==
  { \* no service at all
    Wsdl(url_a, <<>>),
    \* same-named operations on ports of two services, one port with no address
    Wsdl(url_a,
      << << Port(addr1, << Op(n_Ping, <<>>),
                           Op(n_Echo, << <<<<"m","s","g">>, BuiltinType(s_string)>> >>) >>) >>,
         << Port(addr2, << Op(n_Ping, << <<<<"c","o","u","n","t">>, BuiltinType(s_int)>> >>) >>),
            Port(<<>>,  << Op(n_Echo, <<>>), Op(n_Stat, <<>>), Op(n_Ping, <<>>) >>) >> >>),
    \* the first port has no address
    Wsdl(url_b,
      << << Port(<<>>,  << Op(n_Ping, <<>>) >>),
            Port(addr1, << Op(n_Ping, <<>>), Op(n_Stat, << <<<<"a","n","y">>, Other(1, 1)>> >>) >>) >> >>),
    \* every built-in type name
    Wsdl(url_a,
      << << Port(addr1, << Op(<<"C","o","n","v","e","r","t">>, << <<<<"a","l","l">>, ComplexType("AllBuiltins")>> >>) >>) >> >>),
    \* every occurrence combination
    Wsdl(url_a,
      << << Port(addr1, << Op(<<"S","u","b","m","i","t">>, << <<<<"b","o","d","y">>, ComplexType("Occurs")>> >>) >>) >> >>),
    \* complex arguments of several operations under the same element name
    Wsdl(url_b,
      << << Port(addr1, << Op(<<"A">>, << <<n_req, ComplexType("Inner")>> >>),
                           Op(<<"B">>, << <<n_req, ComplexType("Inner")>>,
                                         <<<<"r","e","q","1">>, ComplexType("Inner")>> >>),
                           Op(<<"C">>, << <<n_req, ComplexType("Deep")>> >>) >>) >> >>),
    \* a complex type with a complex child of the same element name
    Wsdl(url_a,
      << << Port(addr2, << Op(<<"N","e","s","t">>, << <<<<"O","u","t","e","r">>, ComplexType("Outer")>> >>) >>) >> >>),
    \* a recursive complex type
    Wsdl(url_b,
      << << Port(addr2, << Op(<<"W","a","l","k">>, << <<<<"n","o","d","e">>, ComplexType("Self")>> >>) >>) >> >>) }

RECURSIVE Concat(_)
Concat(ss) == IF ss = <<>> THEN <<>> ELSE Head(ss) \o Concat(Tail(ss))

\* port.binding_options.get("address") or self.wsdl_url.split("?")[0]
Endpoint(port, wsdl_url) ==
  IF port.address # <<>> THEN port.address ELSE BeforeQuery(wsdl_url)

\* the operations in the order of the three nested loops of generate_schema
\* (services, ports of a service, operations of the port's binding), each with
\* the endpoint computed for its port
PortOps(port, wsdl_url) ==
  [i \in 1..Len(port.operations) |->
     [endpoint |-> Endpoint(port, wsdl_url),
      name |-> port.operations[i].name,
      args |-> port.operations[i].args]]

EnumerateOps(w) ==
  LET ports == Concat(w.services) IN
  Concat([i \in 1..Len(ports) |-> PortOps(ports[i], w.url)])

\* _generate_field: the field block of one operation
GenerateField(op_name, arg_names, gql_args_sig, endpoint) ==
  [op_name |-> op_name,
   signature |-> gql_args_sig,
   endpoint |-> endpoint,
   method |-> "POST",
   postbody |-> [action |-> op_name, args |-> arg_names, soap_version |-> "soap12"],
   resultroot |-> "Envelope"]

\* ------------------------------------------------- the external stepzen CLI
Files == {"index.graphql", "schema.graphql"}

\* f"[ERROR] StepZen command failed:\n{result.stderr}"
ErrorPrefix == <<"[","E","R","R","O","R","]"," ","S","t","e","p","Z","e","n"," ","c","o","m","m","a","n","d"," ","f","a","i","l","e","d",":">> \o <<"\n">>

AlreadyPhrase == <<"a","l","r","e","a","d","y"," ","a"," ","S","t","e","p","Z","e","n"," ","w","o","r","k","s","p","a","c","e">>

\* what running the command can do: exit with a code and a stderr text, or not
\* start at all (subprocess.run raises OSError)
Exit(rc, stderr) == [kind |-> "exit", rc |-> rc, stderr |-> stderr]
NotStarted       == [kind |-> "oserror", rc |-> 0, stderr |-> <<>>]

InitOutcomes ==
  { Exit(0, <<>>),
    Exit(1, <<"E","r","r","o","r",":"," ","t","h","i","s"," ","d","i","r","e","c","t","o","r","y"," ","i","s"," ","a","l","r","e","a","d","y"," ","a"," ","S","t","e","p","Z","e","n"," ","w","o","r","k","s","p","a","c","e",".">>),
    Exit(2, <<"a","l","r","e","a","d","y"," ","a"," ","S","t","e","p","Z","e","n"," ","w","o","r","k","s","p","a","c","e">>),
    Exit(1, <<"E","r","r","o","r",":"," ","a","l","r","e","a","d","y"," ","l","o","g","g","e","d"," ","i","n",","," ","S","t","e","p","Z","e","n"," ","w","o","r","k","s","p","a","c","e"," ","u","n","c","h","a","n","g","e","d">>),
    Exit(1, <<"E","r","r","o","r",":"," ","n","o","t"," ","l","o","g","g","e","d"," ","i","n">>),
    Exit(1, <<>>),
    NotStarted }

DeployOutcomes ==
  { Exit(0, <<>>),
    Exit(1, <<"E","r","r","o","r",":"," ","s","c","h","e","m","a"," ","v","a","l","i","d","a","t","i","o","n"," ","f","a","i","l","e","d">>),
    Exit(1, <<"a","l","r","e","a","d","y"," ","a"," ","S","t","e","p","Z","e","n"," ","w","o","r","k","s","p","a","c","e">>),
    NotStarted }

\* _run_stepzen_command: the exception it ends with ("none" when it returns)
RunStepzenCommand(out) ==
  IF out.kind = "oserror" THEN [raised |-> "OSError", text |-> <<>>]
  ELSE IF out.rc # 0 THEN [raised |-> "RuntimeError", text |-> ErrorPrefix \o out.stderr]
  ELSE [raised |-> "none", text |-> <<>>]

\* InitReturns with an except clause that swallows every RuntimeError
InitReturnsSwallow(out) ==
  RunStepzenCommand(out).raised \in {"none", "RuntimeError"}

\* init_workspace: TRUE when it returns, FALSE when an exception leaves it
InitReturns(out) ==
  LET r == RunStepzenCommand(out) IN
  \/ r.raised = "none"
  \/ r.raised = "RuntimeError" /\ Contains(r.text, AlreadyPhrase)

\* ------------------------------------------------------------------ state
VARIABLES
  pc,                    \* position of main() / of the running method
  cur,                   \* index of the API entry the for loop is at
  failed,                \* step whose exception ended the run, "none" otherwise
  apiState,              \* per API: how far main() got with it
  fileLoc,               \* per API and file: "absent", "workspace" or "cwd"
  written,               \* per API: files generate_schema has written
  client,                \* the parsed WSDL of the current generator
  complex_type_registry, \* self.complex_type_registry
  schema_fields,         \* generate_schema: schema_fields
  seen_ops,              \* generate_schema: seen_ops
  opi,                   \* generate_schema: position in the operation loops
  arg_names,             \* generate_schema: arg_names
  gql_args_sig,          \* generate_schema: gql_args_sig
  stack,                 \* active _map_xsd_to_graphql calls on complex types
  assigned,              \* hint and type_name of each complex call of the pass, in call order
  ret,                   \* last value returned by _map_xsd_to_graphql
  mapError,              \* exception raised inside _map_xsd_to_graphql
  initOutcome,           \* per API: what the init command did
  moved,                 \* deploy: the moved dict (file names)
  deployOutcome          \* per API: what the deploy command did

vars == << pc, cur, failed, apiState, fileLoc, written, client,
           complex_type_registry, schema_fields, seen_ops, opi, arg_names,
           gql_args_sig, stack, assigned, ret, mapError, initOutcome, moved,
           deployOutcome >>

genVars == << complex_type_registry, schema_fields, seen_ops, opi, arg_names,
              gql_args_sig, stack, assigned, ret, mapError >>
fsVars  == << fileLoc, written, moved >>

Apis == 1..NumApis

NoClient  == Wsdl(<<>>, <<>>)
NoRet     == [el_type |-> Node("none", <<>>, "", FALSE, 1, 1), value |-> <<>>]
NoOutcome == [kind |-> "none", rc |-> 0, stderr |-> <<>>]

Init ==
  /\ pc = "load"
  /\ cur = 1
  /\ failed = "none"
  /\ apiState = [a \in Apis |-> "Uninitialized"]
  \* an output folder may hold the two files of an earlier run
  /\ \E old \in [Apis -> {"absent", "workspace"}] :
       fileLoc = [a \in Apis |-> [f \in Files |-> old[a]]]
  /\ written = [a \in Apis |-> {}]
  /\ client = NoClient
  /\ complex_type_registry = <<>>
  /\ schema_fields = <<>>
  /\ seen_ops = {}
  /\ opi = 1
  /\ arg_names = <<>>
  /\ gql_args_sig = <<>>
  /\ stack = <<>>
  /\ assigned = <<>>
  /\ ret = NoRet
  /\ mapError = "none"
  /\ initOutcome = [a \in Apis |-> NoOutcome]
  /\ moved = {}
  /\ deployOutcome = [a \in Apis |-> NoOutcome]

\* AfterFailure of a main() that catches the exception and goes on with the
\* next API entry
AfterFailureContinue(c) ==
  IF c < NumApis THEN [pc |-> "load", cur |-> c + 1] ELSE [pc |-> "done", cur |-> c]

\* main() has no try/except: an exception of any step leaves the for loop
AfterFailure(c) == [pc |-> "aborted", cur |-> c]

Raise(step) ==
  /\ pc' = AfterFailure(cur).pc
  /\ cur' = AfterFailure(cur).cur
  /\ failed' = step

\* StepZenSOAPGenerator(wsdl_url, api_name, api_folder): fetch and parse the WSDL
Load ==
  /\ pc = "load"
  /\ \/ \E w \in Wsdls :
          /\ client' = w
          /\ complex_type_registry' = <<>>
          /\ assigned' = <<>>
          /\ pc' = "init"
          /\ UNCHANGED << cur, failed >>
     \/ /\ Raise("load")
        /\ UNCHANGED << client, complex_type_registry, assigned >>
  /\ UNCHANGED << apiState, fsVars, schema_fields, seen_ops, opi, arg_names,
                  gql_args_sig, stack, ret, mapError, initOutcome,
                  deployOutcome >>

\* generator.init_workspace()
InitWorkspace ==
  /\ pc = "init"
  /\ \E out \in InitOutcomes :
       /\ initOutcome' = [initOutcome EXCEPT ![cur] = out]
       /\ IF InitReturns(out)
          THEN /\ apiState' = [apiState EXCEPT ![cur] = "Initialized"]
               /\ pc' = "generate"
               /\ UNCHANGED << cur, failed >>
          ELSE /\ Raise("init")
               /\ UNCHANGED apiState
  /\ UNCHANGED << fsVars, client, genVars, deployOutcome >>

\* ------------------------------------------------------- generate_schema
\* os.makedirs, schema_fields = [], seen_ops = set()
GenerateBegin ==
  /\ pc = "generate"
  /\ schema_fields' = <<>>
  /\ seen_ops' = {}
  /\ opi' = 1
  /\ arg_names' = <<>>
  /\ gql_args_sig' = <<>>
  /\ pc' = "ops"
  /\ UNCHANGED << cur, failed, apiState, fsVars, client, complex_type_registry,
                  stack, assigned, ret, mapError, initOutcome, deployOutcome >>

\* AlreadySeen of a loop without the seen_ops test
AlreadySeenNever(seen, op_name) == FALSE

\* TRUE when the operation at the loop position is skipped by "continue"
AlreadySeen(seen, op_name) == op_name \in seen

\* one iteration of the operation loop up to the argument loop
NextOperation ==
  /\ pc = "ops"
  /\ opi <= Len(EnumerateOps(client))
  /\ LET op == EnumerateOps(client)[opi] IN
       IF AlreadySeen(seen_ops, op.name)
       THEN /\ opi' = opi + 1
            /\ UNCHANGED << pc, seen_ops, arg_names, gql_args_sig >>
       ELSE /\ seen_ops' = seen_ops \cup {op.name}
            /\ arg_names' = <<>>
            /\ gql_args_sig' = <<>>
            /\ pc' = "args"
            /\ UNCHANGED opi
  /\ UNCHANGED << cur, failed, apiState, fsVars, client, complex_type_registry,
                  schema_fields, stack, assigned, ret, mapError, initOutcome,
                  deployOutcome >>

\* f"{el_name}: {...}" of gql_args_sig
ArgSig(el_name, gql_type) == el_name \o <<":", " ">> \o gql_type

\* a new _map_xsd_to_graphql call on a complex type: the key is chosen on entry
Frame(el_type, type_name_hint, registry) ==
  [el_type |-> el_type,
   type_name |-> UniqueTypeName(registry, type_name_hint),
   i |-> 1,
   fields |-> <<>>]

\* the hint a complex call was given and the key it chose
Chosen(type_name_hint, type_name) == [hint |-> type_name_hint, type_name |-> type_name]

\* an argument whose type is not a ComplexType: the call returns at once
ArgLeaf ==
  /\ pc = "args"
  /\ LET op == EnumerateOps(client)[opi]
         a  == Len(arg_names) + 1 IN
       /\ a <= Len(op.args)
       /\ op.args[a][2].cat # "complex"
       /\ arg_names' = Append(arg_names, op.args[a][1])
       /\ ret' = [el_type |-> op.args[a][2], value |-> MapLeaf(op.args[a][2])]
       /\ gql_args_sig' = Append(gql_args_sig, ArgSig(op.args[a][1], ret'.value))
  /\ UNCHANGED << pc, cur, failed, apiState, fsVars, client,
                  complex_type_registry, schema_fields, seen_ops, opi, stack,
                  assigned, mapError, initOutcome, deployOutcome >>

\* an argument whose type is a ComplexType: the call starts
ArgComplex ==
  /\ pc = "args"
  /\ LET op == EnumerateOps(client)[opi]
         a  == Len(arg_names) + 1 IN
       /\ a <= Len(op.args)
       /\ op.args[a][2].cat = "complex"
       /\ arg_names' = Append(arg_names, op.args[a][1])
       /\ stack' = << Frame(op.args[a][2], op.args[a][1], complex_type_registry) >>
       /\ assigned' = Append(assigned, Chosen(op.args[a][1], stack'[1].type_name))
       /\ pc' = "map"
  /\ UNCHANGED << cur, failed, apiState, fsVars, client, complex_type_registry,
                  schema_fields, seen_ops, opi, gql_args_sig, ret, mapError,
                  initOutcome, deployOutcome >>

\* all arguments mapped: _generate_field and schema_fields.append
FinishOperation ==
  /\ pc = "args"
  /\ LET op == EnumerateOps(client)[opi] IN
       /\ Len(arg_names) = Len(op.args)
       /\ schema_fields' = Append(schema_fields,
            GenerateField(op.name, arg_names, gql_args_sig, op.endpoint))
  /\ opi' = opi + 1
  /\ pc' = "ops"
  /\ UNCHANGED << cur, failed, apiState, fsVars, client, complex_type_registry,
                  seen_ops, arg_names, gql_args_sig, stack, assigned, ret,
                  mapError, initOutcome, deployOutcome >>

\* ------------------------------- _map_xsd_to_graphql on a complex type
Top == stack[Len(stack)]
TopElements == Elements(Top.el_type.id)

\* a child that is not a ComplexType: map it and append its field line
MapChildLeaf ==
  /\ pc = "map"
  /\ Top.i <= Len(TopElements)
  /\ LET name     == TopElements[Top.i][1]
         sub_type == TopElements[Top.i][2] IN
       /\ sub_type.cat # "complex"
       /\ ret' = [el_type |-> sub_type, value |-> MapLeaf(sub_type)]
       /\ stack' = [stack EXCEPT ![Len(stack)] =
            [@ EXCEPT !.i = @ + 1,
                      !.fields = Append(@, FieldLine(name, ret'.value, sub_type))]]
  /\ UNCHANGED << pc, cur, failed, apiState, fsVars, client,
                  complex_type_registry, schema_fields, seen_ops, opi,
                  arg_names, gql_args_sig, assigned, mapError, initOutcome,
                  deployOutcome >>

\* a child that is a ComplexType: the recursive call, or RecursionError when
\* the call stack is exhausted
MapChildComplex ==
  /\ pc = "map"
  /\ Top.i <= Len(TopElements)
  /\ LET name     == TopElements[Top.i][1]
         sub_type == TopElements[Top.i][2] IN
       /\ sub_type.cat = "complex"
       /\ IF Len(stack) < RecursionLimit
          THEN /\ stack' = Append(stack, Frame(sub_type, name, complex_type_registry))
               /\ assigned' = Append(assigned, Chosen(name, stack'[Len(stack')].type_name))
               /\ UNCHANGED << pc, cur, failed, mapError >>
          ELSE /\ mapError' = "RecursionError"
               /\ Raise("generate")
               /\ UNCHANGED << stack, assigned >>
  /\ UNCHANGED << apiState, fsVars, client, complex_type_registry,
                  schema_fields, seen_ops, opi, arg_names, gql_args_sig, ret,
                  initOutcome, deployOutcome >>

\* self.complex_type_registry[type_name] = ...
Register(registry, type_name, decl) == (type_name :> decl) @@ registry

\* the element loop is over: register the declaration, return type_name to the
\* caller, which appends it to its own fields or to gql_args_sig
MapReturn ==
  /\ pc = "map"
  /\ Top.i > Len(TopElements)
  /\ complex_type_registry' =
       Register(complex_type_registry, Top.type_name, TypeDecl(Top.type_name, Top.fields))
  /\ ret' = [el_type |-> Top.el_type, value |-> Top.type_name]
  /\ IF Len(stack) = 1
     THEN /\ stack' = <<>>
          /\ gql_args_sig' = Append(gql_args_sig,
               ArgSig(arg_names[Len(arg_names)], Top.type_name))
          /\ pc' = "args"
     ELSE /\ LET caller   == stack[Len(stack) - 1]
                 name     == Elements(caller.el_type.id)[caller.i][1]
                 sub_type == Elements(caller.el_type.id)[caller.i][2] IN
               stack' = [SubSeq(stack, 1, Len(stack) - 1) EXCEPT ![Len(stack) - 1] =
                 [@ EXCEPT !.i = @ + 1,
                           !.fields = Append(@, FieldLine(name, Top.type_name, sub_type))]]
          /\ UNCHANGED << pc, gql_args_sig >>
  /\ UNCHANGED << cur, failed, apiState, fsVars, client, schema_fields,
                  seen_ops, opi, arg_names, assigned, mapError, initOutcome,
                  deployOutcome >>

\* the loops are over: write schema.graphql, then index.graphql; open() or
\* write() may raise OSError on either
WriteOutcomes == {"ok", "schema_fails", "index_fails"}

WriteFiles ==
  /\ pc = "ops"
  /\ opi > Len(EnumerateOps(client))
  /\ \E w \in WriteOutcomes :
       \/ /\ w = "ok"
          /\ fileLoc' = [fileLoc EXCEPT ![cur] = [f \in Files |-> "workspace"]]
          /\ written' = [written EXCEPT ![cur] = Files]
          /\ apiState' = [apiState EXCEPT ![cur] = "SchemaWritten"]
          /\ pc' = "deploy"
          /\ UNCHANGED << cur, failed >>
       \/ /\ w = "schema_fails"
          /\ Raise("generate")
          /\ UNCHANGED << fileLoc, written, apiState >>
       \/ /\ w = "index_fails"
          /\ fileLoc' = [fileLoc EXCEPT ![cur]["schema.graphql"] = "workspace"]
          /\ written' = [written EXCEPT ![cur] = {"schema.graphql"}]
          /\ Raise("generate")
          /\ UNCHANGED apiState
  /\ UNCHANGED << moved, client, genVars, initOutcome, deployOutcome >>

\* ------------------------------------------------------------------ deploy
\* the files os.walk finds under base_folder
Found(loc) == {f \in Files : loc[f] = "workspace"}

\* deploy up to the start of the command: move the found files to os.getcwd()
DeployMove ==
  /\ pc = "deploy"
  /\ moved' = Found(fileLoc[cur])
  /\ fileLoc' = [fileLoc EXCEPT ![cur] =
       [f \in Files |-> IF f \in moved' THEN "cwd" ELSE fileLoc[cur][f]]]
  /\ pc' = "deploying"
  /\ UNCHANGED << cur, failed, apiState, written, client, genVars, initOutcome,
                  deployOutcome >>

\* CommandReturns of a wrapper that ignores the return code
CommandReturnsIgnoringCode(out) == RunStepzenCommand(out).raised # "RuntimeError"

\* TRUE when _run_stepzen_command returns to deploy, FALSE when it raises
CommandReturns(out) == RunStepzenCommand(out).raised = "none"

\* for f, original in moved.items(): shutil.move(cwd/f, original)
MoveBack(loc, mv) == [f \in Files |-> IF f \in mv THEN "workspace" ELSE loc[f]]

\* the command ends: move the files back and return, or leave by the exception
DeployFinish ==
  /\ pc = "deploying"
  /\ \E out \in DeployOutcomes :
       /\ deployOutcome' = [deployOutcome EXCEPT ![cur] = out]
       /\ IF CommandReturns(out)
          THEN /\ fileLoc' = [fileLoc EXCEPT ![cur] = MoveBack(fileLoc[cur], moved)]
               /\ apiState' = [apiState EXCEPT ![cur] = "Deployed"]
               /\ failed' = failed
               /\ IF cur < NumApis
                  THEN pc' = "load" /\ cur' = cur + 1
                  ELSE pc' = "done" /\ cur' = cur
          ELSE /\ Raise("deploy")
               /\ UNCHANGED << fileLoc, apiState >>
  /\ UNCHANGED << written, moved, client, genVars, initOutcome >>

Next ==
  \/ Load
  \/ InitWorkspace
  \/ GenerateBegin
  \/ NextOperation
  \/ ArgLeaf
  \/ ArgComplex
  \/ FinishOperation
  \/ MapChildLeaf
  \/ MapChildComplex
  \/ MapReturn
  \/ WriteFiles
  \/ DeployMove
  \/ DeployFinish

Spec == Init /\ [][Next]_vars

\* ================================================================ claims

\* ---- C1 ----
\* C1: whenever deploy() has ended for an API, with the command succeeding or
\* failing, none of its files is left in the current directory: every moved
\* file is back in the workspace.
C1_FilesRestoredAfterDeploy ==
  \A a \in Apis :
    deployOutcome[a].kind # "none" =>
      \A f \in Files : fileLoc[a][f] # "cwd"

\* ---- C2 ----
InitSucceeded(out) == out.kind = "exit" /\ out.rc = 0
InitAlready(out)   == out.kind = "exit" /\ out.rc # 0 /\ Contains(out.stderr, AlreadyPhrase)

\* C2: init_workspace() returns normally when the init command exits with 0 or
\* fails with a text that contains "already a StepZen workspace"; after any
\* other failure the exception ends the run at this API, whose schema is never
\* written and whose deploy never runs.
C2_InitWorkspaceErrors ==
  \A a \in Apis :
    initOutcome[a].kind # "none" =>
      IF InitSucceeded(initOutcome[a]) \/ InitAlready(initOutcome[a])
      THEN apiState[a] # "Uninitialized" /\ ~(failed = "init" /\ cur = a)
      ELSE /\ failed = "init" /\ pc = "aborted" /\ cur = a
           /\ apiState[a] = "Uninitialized"
           /\ written[a] = {}
           /\ deployOutcome[a].kind = "none"

\* init failed with the "already a workspace" text and the API went on
C2_Witness ==
  \E a \in Apis : InitAlready(initOutcome[a]) /\ written[a] = Files

\* ---- C3 ----
\* positions <<service, port, operation>> of the parsed WSDL
OpPositions ==
  { t \in (1..3) \X (1..3) \X (1..3) :
      /\ t[1] <= Len(client.services)
      /\ t[2] <= Len(client.services[t[1]])
      /\ t[3] <= Len(client.services[t[1]][t[2]].operations) }
OpAt(t) == client.services[t[1]][t[2]].operations[t[3]]
PortAt(t) == client.services[t[1]][t[2]]
Earlier(t, u) ==
  \/ t[1] < u[1]
  \/ t[1] = u[1] /\ t[2] < u[2]
  \/ t[1] = u[1] /\ t[2] = u[2] /\ t[3] < u[3]
FirstPosition(op_name) ==
  CHOOSE t \in OpPositions :
    /\ OpAt(t).name = op_name
    /\ \A u \in OpPositions : OpAt(u).name = op_name => u = t \/ Earlier(t, u)
SchemaAssembled == pc \in {"deploy", "deploying"}

\* C3: in the assembled Query type there is exactly one field per distinct
\* operation name of the WSDL, and it carries the endpoint and the arguments
\* of the first port, in service-then-port order, that has that operation.
C3_OneFieldPerOperationFirstWins ==
  SchemaAssembled =>
    /\ { schema_fields[k].op_name : k \in 1..Len(schema_fields) }
         = { OpAt(t).name : t \in OpPositions }
    /\ \A k, l \in 1..Len(schema_fields) :
         schema_fields[k].op_name = schema_fields[l].op_name => k = l
    /\ \A k \in 1..Len(schema_fields) :
         LET t == FirstPosition(schema_fields[k].op_name) IN
           /\ schema_fields[k].endpoint =
                (IF PortAt(t).address # <<>> THEN PortAt(t).address
                 ELSE BeforeQuery(client.url))
           /\ schema_fields[k].postbody.args =
                [i \in 1..Len(OpAt(t).args) |-> OpAt(t).args[i][1]]

\* a schema assembled from a WSDL in which an operation name occurs on several ports
C3_Witness ==
  /\ SchemaAssembled
  /\ Cardinality(OpPositions) > Len(schema_fields)
  /\ Len(schema_fields) > 1

\* ---- C4 ----
\* C4: the complex types mapped in one pass get pairwise distinct registry
\* keys, and when the first two are mapped under the same hint the first gets
\* the hint and the second the hint followed by 1.
C4_DistinctRegistryKeys ==
  /\ \A i, j \in 1..Len(assigned) :
       i # j => assigned[i].type_name # assigned[j].type_name
  /\ (Len(assigned) >= 2 /\ assigned[1].hint = assigned[2].hint) =>
       /\ assigned[1].type_name = assigned[1].hint
       /\ assigned[2].type_name = assigned[1].hint \o <<"1">>

\* ---- C5 ----
\* the field lines built so far by the active calls, each with its element
EmittedFields ==
  UNION { { << stack[k].fields[i], Elements(stack[k].el_type.id)[i][2] >> :
              i \in 1..Len(stack[k].fields) } : k \in 1..Len(stack) }

\* C5 as stated: the field of a child with minimum occurrence 0 never ends
\* with "!", whatever its maximum occurrence.
C5_OptionalNeverEndsNonNull ==
  \A e \in EmittedFields :
    MinOccurs(e[2]) = 0 => ~EndsWithBang(e[1])

\* C5 amended: the field of a child with minimum occurrence 0 and a maximum
\* occurrence that is neither unbounded nor greater than 1 does not end with "!".
C5_OptionalSingleNotNonNull ==
  \A e \in EmittedFields :
    (MinOccurs(e[2]) = 0 /\ MaxOccurs(e[2]) # Unbounded /\ MaxOccurs(e[2]) <= 1)
      => ~EndsWithBang(e[1])

\* an optional, non-repeated built-in child whose "Int!" was stripped to "Int"
C5_Witness ==
  \E e \in EmittedFields :
    /\ MinOccurs(e[2]) = 0 /\ MaxOccurs(e[2]) = 1 /\ e[2].cat = "builtin"
    /\ SubSeq(e[1], Len(e[1]) - 2, Len(e[1])) = <<"I","n","t">>

\* ---- C6 ----
\* C6: no call of the type mapper ends with an exception.
C6_MapperNeverRaises == mapError = "none"

\* ---- C7 ----
Untouched(b) ==
  /\ apiState[b] = "Uninitialized"
  /\ initOutcome[b].kind = "none"
  /\ deployOutcome[b].kind = "none"
  /\ written[b] = {}

\* C7: an API is worked on only after every earlier API is deployed; once a
\* step of an API has failed the run has stopped there, every later API is
\* untouched and the success message is not reached.
C7_SequentialAbortOnFailure ==
  /\ \A a, b \in Apis : (a < b /\ (b <= cur \/ ~Untouched(b))) => apiState[a] = "Deployed"
  /\ failed # "none" =>
       /\ pc = "aborted"
       /\ apiState[cur] # "Deployed"
       /\ \A b \in Apis : b > cur => Untouched(b)
  /\ pc = "done" => failed = "none" /\ \A a \in Apis : apiState[a] = "Deployed"

\* the first API failed while later APIs were still to be processed
C7_Witness == failed = "generate" /\ pc = "aborted" /\ cur < NumApis

\* ---- C8 ----
Forward == { <<"Uninitialized", "Initialized">>, <<"Initialized", "SchemaWritten">>,
             <<"SchemaWritten", "Deployed">> }

DeployInvoked(a) == deployOutcome[a].kind # "none" \/ (pc = "deploying" /\ cur = a)

C8_Order ==
  \A a \in Apis :
    /\ written[a] # {} =>
         (InitSucceeded(initOutcome[a]) \/ InitAlready(initOutcome[a]))
    /\ apiState[a] \in {"SchemaWritten", "Deployed"} => written[a] = Files
    /\ DeployInvoked(a) => written[a] = Files /\ apiState[a] # "Initialized"
    /\ apiState[a] = "Deployed" =>
         deployOutcome[a].kind = "exit" /\ deployOutcome[a].rc = 0

\* C8: the state of an API only moves one step forward along Uninitialized,
\* Initialized, SchemaWritten, Deployed; files are written only after a
\* successful (or already done) init, the deploy command runs only after both
\* files are written, and Deployed is reached only on exit code 0.
C8_ForwardOnly ==
  /\ []C8_Order
  /\ [][\A a \in Apis :
          apiState'[a] = apiState[a] \/ <<apiState[a], apiState'[a]>> \in Forward]_vars

\* an API deployed after its init reported an existing workspace
C8_Witness ==
  \E a \in Apis : apiState[a] = "Deployed" /\ initOutcome[a].rc # 0

\* ---- C9 ----
\* C9: within a pass (any step but the construction of the next generator) a
\* registered key stays registered with the same declaration.
C9_RegistryAppendOnly ==
  [][pc # "load" =>
       \A k \in DOMAIN complex_type_registry :
         /\ k \in DOMAIN complex_type_registry'
         /\ complex_type_registry'[k] = complex_type_registry[k]]_vars

\* ---- C10 ----
\* C10: a built-in whose lower-cased name contains "int" maps to Int!, one
\* containing "float", "double" or "decimal" to Float!, one containing "bool"
\* to Boolean!, any other built-in to String!; a node that is neither
\* built-in nor complex maps to String!.
C10_BuiltinMapping ==
  /\ ret.el_type.cat = "builtin" =>
       LET n == Lower(ret.el_type.name)
           isInt   == Contains(n, <<"i","n","t">>)
           isFloat == Contains(n, <<"f","l","o","a","t">>) \/ Contains(n, <<"d","o","u","b","l","e">>)
                        \/ Contains(n, <<"d","e","c","i","m","a","l">>)
           isBool  == Contains(n, <<"b","o","o","l">>) IN
         /\ isInt => ret.value = <<"I","n","t","!">>
         /\ isFloat => ret.value = <<"F","l","o","a","t","!">>
         /\ isBool => ret.value = <<"B","o","o","l","e","a","n","!">>
         /\ ~(isInt \/ isFloat \/ isBool) => ret.value = <<"S","t","r","i","n","g","!">>
  /\ ret.el_type.cat = "other" => ret.value = <<"S","t","r","i","n","g","!">>

\* a built-in whose name matches only after lower-casing was mapped
C10_Witness ==
  /\ ret.el_type.cat = "builtin"
  /\ ret.el_type.name = <<"u","n","s","i","g","n","e","d","I","n","t">>
  /\ ret.value = <<"I","n","t","!">>

====
